---- MODULE Spec2Model ----
(***************************************************************************)
(* Model of the conversational memory manager of src/src/memory_system.py  *)
(* (class MemorySystem): the short-term window, the persistent store, the  *)
(* lexical relevance search, the weekly summarizer and the token-bounded   *)
(* context composer.                                                       *)
(*                                                                         *)
(* A text is a sequence of characters; a character is a one-letter string. *)
(* The accented letters of the source are written "a^", "e^", "i^" (for    *)
(* a-acute, e-acute, i-acute): each is ONE character of the text.          *)
(***************************************************************************)
EXTENDS Integers, Sequences, FiniteSets, TLC

VARIABLES
    short_term_memory,       \* self.short_term_memory: sequence of interaction records
    conversation_summaries,  \* self.conversation_summaries: the in-memory summary cache
    memory_file,             \* the file at MEMORY_FILE_PATH
    summary_file,            \* the file at SUMMARY_FILE_PATH
    now,                     \* the wall clock read by datetime.now()
    appended,                \* history: records given to add_interaction since the window was last empty
    from_empty,              \* history: the window was empty when `appended` was last reset
    adds,                    \* history: number of add_interaction calls so far
    last                     \* history: the last call, its arguments and what it returned

vars == <<short_term_memory, conversation_summaries, memory_file, summary_file,
          now, appended, from_empty, adds, last>>

(***************************************************************************)
(* Configuration (src/src/config.py)                                       *)
(***************************************************************************)
SHORT_TERM_MEMORY_LIMIT == 10
LONG_TERM_SUMMARY_THRESHOLD == 50
MAX_CONTEXT_TOKENS == 6000
RELEVANCE_SEARCH_LIMIT == 5

(***************************************************************************)
(* Sequence helpers                                                        *)
(***************************************************************************)
Min(a, b) == IF a <= b THEN a ELSE b

Max(a, b) == IF a >= b THEN a ELSE b

\* s[-n:] of Python for n > 0: the last n elements, all of s when it is shorter
LastN(s, n) == SubSeq(s, Max(1, Len(s) - n + 1), Len(s))

\* s[:n] of Python for n >= 0
FirstN(s, n) == SubSeq(s, 1, Min(n, Len(s)))

\* s[:-n] of Python for n > 0: all but the last n elements
DropLastN(s, n) == SubSeq(s, 1, Len(s) - n)

\* the sequence with the elements f[1], ..., f[n] of a function f on 1..n
Seq1(f) == SubSeq(f, 1, Len(f))

RECURSIVE Flatten(_)
Flatten(ss) == IF ss = <<>> THEN <<>> ELSE Head(ss) \o Flatten(Tail(ss))

RECURSIVE SumSeq(_)
SumSeq(s) == IF s = <<>> THEN 0 ELSE Head(s) + SumSeq(Tail(s))

\* sep.join(parts) of Python
RECURSIVE Join(_, _)
Join(sep, parts) ==
    IF parts = <<>> THEN <<>>
    ELSE IF Len(parts) = 1 THEN Head(parts)
    ELSE Head(parts) \o sep \o Join(sep, Tail(parts))

\* the text made of n copies of w
Rep(w, n) == Seq1([i \in 1..(n * Len(w)) |-> w[((i - 1) % Len(w)) + 1]])

(***************************************************************************)
(* Characters                                                              *)
(***************************************************************************)
\* characters matched by \s (and split on by str.split)
Whitespace == {" ", "\t", "\n"}

\* characters that are neither \w nor \s
Punctuation == {",", ".", ":", ";", "?", "!", "'", "-", "(", ")"}

UpperToLower ==
    [c \in {"A", "C", "E", "H", "L", "M", "P", "Q", "R", "S"} |->
        CASE c = "A" -> "a" [] c = "C" -> "c" [] c = "E" -> "e" [] c = "H" -> "h" [] c = "L" -> "l"
          [] c = "M" -> "m" [] c = "P" -> "p" [] c = "Q" -> "q" [] c = "R" -> "r"
          [] c = "S" -> "s"]

\* str.lower()
Lower(text) ==
    Seq1([i \in 1..Len(text) |->
            IF text[i] \in DOMAIN UpperToLower THEN UpperToLower[text[i]] ELSE text[i]])

(***************************************************************************)
(* Term Extractor: MemorySystem._extract_terms                             *)
(***************************************************************************)
\* re.sub(r'[^\w\s]', ' ', text)
StripPunctuation(text) ==
    Seq1([i \in 1..Len(text) |-> IF text[i] \in Punctuation THEN " " ELSE text[i]])

\* str.split(): the maximal runs of non-whitespace characters, in order.  The k-th
\* word runs from the k-th position where a run starts to the k-th where one ends.
Split(text) ==
    LET n == Len(text)
        Starts(i) == text[i] \notin Whitespace /\ (i = 1 \/ text[i - 1] \in Whitespace)
        Ends(i) == text[i] \notin Whitespace /\ (i = n \/ text[i + 1] \in Whitespace)
        positions == [i \in 1..n |-> i]
        starts == SelectSeq(positions, Starts)
        ends == SelectSeq(positions, Ends)
    IN  Seq1([k \in 1..Len(starts) |-> SubSeq(text, starts[k], ends[k])])

stop_words ==
    { <<"e", "l">>, <<"l", "a">>, <<"d", "e">>,
      <<"q", "u", "e">>, <<"y">>, <<"e", "n">>,
      <<"u", "n">>, <<"e", "s">>, <<"s", "e">>,
      <<"n", "o">>, <<"t", "e">>, <<"l", "o">>,
      <<"l", "e">>, <<"d", "a">>, <<"s", "u">>,
      <<"p", "o", "r">>, <<"s", "o", "n">>, <<"c", "o", "n">>,
      <<"p", "a", "r", "a">>, <<"u", "n", "a">>, <<"d", "e", "l">>,
      <<"l", "a", "s">>, <<"l", "o", "s">>, <<"c", "o", "m", "o">>,
      <<"p", "e", "r", "o">>, <<"s", "u", "s">>, <<"f", "u", "e">>,
      <<"s", "e", "r">>, <<"e", "s", "t", "a^">>, <<"m", "u", "y">>,
      <<"m", "a^", "s">>, <<"t", "o", "d", "o">>, <<"b", "i", "e", "n">>,
      <<"p", "u", "e", "d", "e">>, <<"e", "s", "t", "o">>, <<"s", "i", "n">>,
      <<"s", "o", "b", "r", "e">>, <<"t", "a", "m", "b", "i", "e^", "n">>, <<"m", "e">>,
      <<"h", "a", "s", "t", "a">>, <<"h", "a", "y">>, <<"d", "o", "n", "d", "e">>,
      <<"q", "u", "i", "e", "n">>, <<"d", "e", "s", "d", "e">>, <<"t", "o", "d", "o", "s">>,
      <<"d", "u", "r", "a", "n", "t", "e">>, <<"e", "l", "l", "a">>, <<"e", "n", "t", "r", "e">> }

\* mutant of KeepTerm: the filter keeps terms of length 2
KeepTerm_short(term) == Len(term) > 1 /\ term \notin stop_words

\* the filter of line 145
KeepTerm(term) == Len(term) > 2 /\ term \notin stop_words

_extract_terms(text) == SelectSeq(Split(StripPunctuation(text)), KeepTerm)

\* MemorySystem._estimate_tokens
_estimate_tokens(text) == Len(text) \div 4

(***************************************************************************)
(* Relevance Scorer: MemorySystem._calculate_relevance_score               *)
(* A score is the exact fraction num/den of the float the code computes.   *)
(***************************************************************************)
Score(n, d) == [num |-> n, den |-> d]

ZeroScore == Score(0, 1)

\* the "relevance_score": 1.0 given to every new record
InitialScore == Score(1, 1)

ScoreGT(a, b) == a.num * b.den > b.num * a.den

ScorePositive(a) == a.num > 0

\* Counter(text_terms)[term]
CountOf(term, terms) == Cardinality({i \in 1..Len(terms) : terms[i] = term})

\* mutant of HitCount: a query term that occurs in the text counts once
RECURSIVE HitCount_once(_, _)
HitCount_once(query_terms, text_terms) ==
    IF query_terms = <<>> THEN 0
    ELSE (IF CountOf(Head(query_terms), text_terms) > 0 THEN 1 ELSE 0)
            + HitCount_once(Tail(query_terms), text_terms)

\* the sum of text_freq[term] over the query terms that occur in the text
RECURSIVE HitCount(_, _)
HitCount(query_terms, text_terms) ==
    IF query_terms = <<>> THEN 0
    ELSE CountOf(Head(query_terms), text_terms) + HitCount(Tail(query_terms), text_terms)

_calculate_relevance_score(query_terms, text) ==
    LET text_terms == _extract_terms(text)
    IN  IF text_terms = <<>> \/ query_terms = <<>> THEN ZeroScore
        ELSE LET hits == HitCount(query_terms, text_terms)
             IN  IF hits = 0 THEN ZeroScore ELSE Score(hits, Len(text_terms))

(***************************************************************************)
(* Dates: datetime.fromisoformat and date.isocalendar                      *)
(* A timestamp is the datetime its ISO-8601 string denotes: year, month,   *)
(* day and the time of day `us`.  Two ISO strings are equal exactly when   *)
(* the datetimes are.                                                      *)
(***************************************************************************)
Timestamp(y, m, d, t) == [year |-> y, month |-> m, day |-> d, us |-> t]

\* datetime.fromisoformat(conv['timestamp']) succeeds
IsoParsable(ts) == DOMAIN ts = {"year", "month", "day", "us"}

IsLeap(y) == (y % 4 = 0) /\ ((y % 100 # 0) \/ (y % 400 = 0))

DaysBeforeYear(y) ==
    LET p == y - 1 IN p * 365 + (p \div 4) - (p \div 100) + (p \div 400)

DaysBeforeMonthTable == <<0, 31, 59, 90, 120, 151, 181, 212, 243, 273, 304, 334>>

DaysInMonthTable == <<31, 28, 31, 30, 31, 30, 31, 31, 30, 31, 30, 31>>

DaysInMonth(y, m) == IF m = 2 /\ IsLeap(y) THEN 29 ELSE DaysInMonthTable[m]

DaysBeforeMonth(y, m) ==
    DaysBeforeMonthTable[m] + (IF m > 2 /\ IsLeap(y) THEN 1 ELSE 0)

\* proleptic Gregorian ordinal, 1 = 0001-01-01 (a Monday)
Ymd2Ord(y, m, d) == DaysBeforeYear(y) + DaysBeforeMonth(y, m) + d

\* the ordinal of the Monday that starts ISO week 1 of `year`
IsoWeek1Monday(year) ==
    LET firstday == Ymd2Ord(year, 1, 1)
        firstweekday == (firstday + 6) % 7
        week1monday == firstday - firstweekday
    IN  IF firstweekday > 3 THEN week1monday + 7 ELSE week1monday

\* date.isocalendar()[1]
IsoWeek(ts) ==
    LET today == Ymd2Ord(ts.year, ts.month, ts.day)
        w == today - IsoWeek1Monday(ts.year)
    IN  IF w < 0 THEN ((today - IsoWeek1Monday(ts.year - 1)) \div 7) + 1
        ELSE IF (w \div 7) >= 52 /\ today >= IsoWeek1Monday(ts.year + 1) THEN 1
        ELSE (w \div 7) + 1

\* date.isocalendar()[0]
IsoYear(ts) ==
    LET today == Ymd2Ord(ts.year, ts.month, ts.day)
        w == today - IsoWeek1Monday(ts.year)
    IN  IF w < 0 THEN ts.year - 1
        ELSE IF (w \div 7) >= 52 /\ today >= IsoWeek1Monday(ts.year + 1) THEN ts.year + 1
        ELSE ts.year

DigitChars == <<"0", "1", "2", "3", "4", "5", "6", "7", "8", "9">>

\* str(n) for n >= 0: the decimal digits
RECURSIVE Str(_)
Str(n) == IF n < 10 THEN <<DigitChars[n + 1]>> ELSE Str(n \div 10) \o <<DigitChars[(n % 10) + 1]>>

\* f"{date.year}-W{date.isocalendar()[1]}"
WeekKey(ts) == Str(ts.year) \o <<"-", "W">> \o Str(IsoWeek(ts))

\* the date n >= 0 days after ts (the time of day restarts): the date with ordinal
\* Ymd2Ord(ts) + n
PlusDays(ts, n) ==
    LET ord == Ymd2Ord(ts.year, ts.month, ts.day) + n
        y == CHOOSE y \in ts.year..(ts.year + (n \div 365) + 1) :
                 DaysBeforeYear(y) < ord /\ ord <= DaysBeforeYear(y + 1)
        m == CHOOSE m \in 1..12 :
                 /\ DaysBeforeYear(y) + DaysBeforeMonth(y, m) < ord
                 /\ ord <= DaysBeforeYear(y) + DaysBeforeMonth(y, m) + DaysInMonth(y, m)
    IN  Timestamp(y, m, ord - DaysBeforeYear(y) - DaysBeforeMonth(y, m), 0)

(***************************************************************************)
(* Interaction records: MemorySystem.add_interaction, lines 31-38          *)
(***************************************************************************)
NewInteraction(ts, user_message, assistant_response, metadata) ==
    [timestamp |-> ts,
     user_message |-> user_message,
     assistant_response |-> assistant_response,
     metadata |-> metadata,
     tokens_used |-> _estimate_tokens(user_message \o assistant_response),
     relevance_score |-> InitialScore]

\* conv['user_message'] and conv['assistant_response'] do not raise KeyError
HasTexts(conv) == {"user_message", "assistant_response"} \subseteq DOMAIN conv

\* interaction.get('tokens_used', self._estimate_tokens(user_message + assistant_response))
TokensOf(conv) ==
    IF "tokens_used" \in DOMAIN conv THEN conv.tokens_used
    ELSE _estimate_tokens(conv.user_message \o conv.assistant_response)

\* f"{conv['user_message']} {conv['assistant_response']}"
ConvText(conv) == conv.user_message \o <<" ">> \o conv.assistant_response

(***************************************************************************)
(* Files.  A file is missing, holds a JSON document (`data`, the value     *)
(* json.load returns), or holds the unparsable rest of a write that failed *)
(* part-way.                                                               *)
(***************************************************************************)
MissingFile == [state |-> "missing", data |-> <<>>]

JsonFile(data) == [state |-> "ok", data |-> data]

CorruptFile == [state |-> "corrupt", data |-> <<>>]

\* os.path.exists(path)
Exists(file) == file.state # "missing"

\* open(path, 'r') and json.load(f) return (no exception)
Readable(file) == file.state = "ok"

(***************************************************************************)
(* Stable sort, descending: list.sort(key=..., reverse=True) and           *)
(* Counter.most_common.  `keys` are scores; equal keys keep their order.   *)
(***************************************************************************)
SortDescOrder(keys) ==
    LET n == Len(keys)
        rank == [i \in 1..n |->
                    Cardinality({j \in 1..n : \/ ScoreGT(keys[j], keys[i])
                                              \/ (~ScoreGT(keys[i], keys[j]) /\ j < i)}) + 1]
    IN  Seq1([p \in 1..n |-> CHOOSE i \in 1..n : rank[i] = p])

(***************************************************************************)
(* MemorySystem.search_relevant_conversations                              *)
(***************************************************************************)
\* mutant of ScoredCopy: the record is returned with the score it was stored with
ScoredCopy_stale(conv, score) == conv

\* conv.copy() with conv_copy['relevance_score'] = score
ScoredCopy(conv, score) == [conv EXCEPT !.relevance_score = score]

\* mutant of IsHit: every record is a hit
IsHit_all(score) == TRUE

\* the test `score > 0` of line 121
IsHit(score) == ScorePositive(score)

RECURSIVE ScoreAll(_, _)
ScoreAll(query_terms, history) ==
    IF history = <<>> THEN <<>>
    ELSE LET conv == Head(history)
             score == _calculate_relevance_score(query_terms, Lower(ConvText(conv)))
         IN  (IF IsHit(score) THEN <<ScoredCopy(conv, score)>> ELSE <<>>)
                 \o ScoreAll(query_terms, Tail(history))

\* mutant of SortByRelevance: the hits stay in corpus order
SortByRelevance_none(scored) == scored

\* scored_conversations.sort(key=lambda x: x['relevance_score'], reverse=True)
SortByRelevance(scored) ==
    LET order == SortDescOrder([i \in 1..Len(scored) |-> scored[i].relevance_score])
    IN  Seq1([p \in 1..Len(scored) |-> scored[order[p]]])

\* mutant of TopN: one record more than the limit
TopN_more(scored, limit) == FirstN(scored, limit + 1)

\* scored_conversations[:limit], limit >= 0
TopN(scored, limit) == FirstN(scored, limit)

\* `read_ok`: the read of the store did not fail
search_relevant_conversations(file, query, limit, read_ok) ==
    IF Exists(file) /\ ~(read_ok /\ Readable(file)) THEN <<>>       \* except Exception
    ELSE IF file.data = <<>> THEN <<>>                              \* not all_history
    ELSE IF \E i \in 1..Len(file.data) : ~HasTexts(file.data[i]) THEN <<>>   \* KeyError
    ELSE TopN(SortByRelevance(ScoreAll(_extract_terms(Lower(query)), file.data)), limit)

(***************************************************************************)
(* Summarizer: _group_conversations_by_time and _create_weekly_summary     *)
(***************************************************************************)
\* the distinct elements of s, in order of first occurrence (the keys of a dict or
\* Counter filled from s)
RECURSIVE Distinct(_)
Distinct(s) ==
    IF Len(s) <= 1 THEN s
    ELSE LET mid == Len(s) \div 2
             left == Distinct(SubSeq(s, 1, mid))
             NotInLeft(x) == \A i \in 1..Len(left) : left[i] # x
         IN  left \o SelectSeq(Distinct(SubSeq(s, mid + 1, Len(s))), NotInLeft)

\* [term for term, count in Counter(terms).most_common(n)]
MostCommon(terms, n) ==
    LET keys == Distinct(terms)
        order == SortDescOrder([i \in 1..Len(keys) |-> Score(CountOf(keys[i], terms), 1)])
    IN  FirstN(Seq1([p \in 1..Len(keys) |-> keys[order[p]]]), n)

PeriodoText == <<"P", "e", "r", "i^", "o", "d", "o", " ">>

ConversacionesText ==
    <<" ", "c", "o", "n", "v", "e", "r", "s", "a", "c", "i", "o", "n", "e", "s", " ",
      "s", "o", "b", "r", "e", " ", "t", "e", "m", "a", "s", " ", "c", "o", "m", "o", " ">>

RECURSIVE TokensTotal(_)
TokensTotal(convs) ==
    IF convs = <<>> THEN 0
    ELSE (IF "tokens_used" \in DOMAIN Head(convs) THEN Head(convs).tokens_used ELSE 0)
             + TokensTotal(Tail(convs))

_create_weekly_summary(week, conversations) ==
    LET all_text == Join(<<" ">>, [i \in 1..Len(conversations) |-> ConvText(conversations[i])])
        top_terms == MostCommon(_extract_terms(Lower(all_text)), 10)
    IN  [period |-> week,
         conversation_count |-> Len(conversations),
         date_range |-> [start |-> conversations[1].timestamp,
                         end |-> conversations[Len(conversations)].timestamp],
         main_topics |-> top_terms,
         total_tokens |-> TokensTotal(conversations),
         summary_text |-> PeriodoText \o week \o <<":", " ">> \o Str(Len(conversations))
                             \o ConversacionesText \o Join(<<",", " ">>, FirstN(top_terms, 5))]

\* mutant of Grouped: one record whose timestamp does not parse ends the grouping
Grouped_abort(conversations) ==
    IF \A i \in 1..Len(conversations) : IsoParsable(conversations[i].timestamp)
    THEN conversations ELSE <<>>

\* the records whose timestamp parses, lines 211-221
Grouped(conversations) ==
    LET Parses(conv) == IsoParsable(conv.timestamp)
    IN  SelectSeq(conversations, Parses)

\* the week_key of each grouped record, line 213
GroupedKeys(conversations) ==
    LET g == Grouped(conversations)
    IN  Seq1([i \in 1..Len(g) |-> WeekKey(g[i].timestamp)])

\* the keys of weekly_groups, in insertion order
WeekKeys(conversations) == Distinct(GroupedKeys(conversations))

\* mutant of EnoughForSummary: a week of 4 conversations is summarized too
EnoughForSummary_four(convs) == Len(convs) >= 4

\* the test `len(convs) >= 5` of line 225
EnoughForSummary(convs) == Len(convs) >= 5

_group_conversations_by_time(conversations) ==
    LET g == Grouped(conversations)
        keys == GroupedKeys(conversations)
        weeks == Distinct(keys)
        \* weekly_groups[weeks[w]]: the grouped records of that week, in order
        positions == Seq1([i \in 1..Len(g) |-> i])
        Group(w) ==
            LET InWeek(i) == keys[i] = weeks[w]
                members == SelectSeq(positions, InWeek)
            IN  Seq1([k \in 1..Len(members) |-> g[members[k]]])
        Summarized(w) == EnoughForSummary(Group(w))
        summarized == SelectSeq(Seq1([w \in 1..Len(weeks) |-> w]), Summarized)
    IN  Seq1([k \in 1..Len(summarized) |->
                 _create_weekly_summary(weeks[summarized[k]], Group(summarized[k]))])

(***************************************************************************)
(* Context Composer: MemorySystem.get_intelligent_context                  *)
(***************************************************************************)
Message(role, content) == [role |-> role, content |-> content]

ResumenText ==
    <<"R", "e", "s", "u", "m", "e", "n", " ", "d", "e", " ", "c", "o", "n", "v", "e", "r",
      "s", "a", "c", "i", "o", "n", "e", "s", " ", "a", "n", "t", "e", "r", "i", "o", "r",
      "e", "s", ":", " ">>

\* mutant of TopicsMatch: every summary is relevant
TopicsMatch_all(query_terms, summary) == TRUE

\* query_terms & set(summary.get('main_topics', [])), line 350
TopicsMatch(query_terms, summary) ==
    LET topics == IF "main_topics" \in DOMAIN summary THEN summary.main_topics ELSE <<>>
    IN  \E i \in 1..Len(query_terms), j \in 1..Len(topics) : query_terms[i] = topics[j]

_get_relevant_summaries(summaries, query) ==
    LET query_terms == _extract_terms(Lower(query))
        Relevant(summary) == TopicsMatch(query_terms, summary)
        relevant_summaries == SelectSeq(summaries, Relevant)
    IN  Join(<<" ">>, [i \in 1..Min(2, Len(relevant_summaries)) |->
                          relevant_summaries[i].summary_text])

\* mutant of FitsBudget: one token over the budget still fits
FitsBudget_over(current_tokens, tokens, max_tokens) == current_tokens + tokens <= max_tokens + 1

\* the tests of lines 298, 322 and 333: current_tokens + tokens <= max_tokens
FitsBudget(current_tokens, tokens, max_tokens) == current_tokens + tokens <= max_tokens

\* mutant of RecentCount: a record that does not fit is skipped and the walk goes on
RECURSIVE RecentCount_continue(_, _, _, _)
RecentCount_continue(window, i, current_tokens, max_tokens) ==
    IF i = 0 THEN 0
    ELSE IF ~FitsBudget(current_tokens, TokensOf(window[i]), max_tokens)
         THEN RecentCount_continue(window, i - 1, current_tokens, max_tokens)
    ELSE 1 + RecentCount_continue(window, i - 1, current_tokens + TokensOf(window[i]),
                                  max_tokens)

\* step 1, lines 293-304: how many of the newest window records are included
RECURSIVE RecentCount(_, _, _, _)
RecentCount(window, i, current_tokens, max_tokens) ==
    IF i = 0 THEN 0
    ELSE IF ~FitsBudget(current_tokens, TokensOf(window[i]), max_tokens) THEN 0     \* break
    ELSE 1 + RecentCount(window, i - 1, current_tokens + TokensOf(window[i]), max_tokens)

\* mutant of RecentMessages: only the user message of a recent interaction is emitted
RecentMessages_userOnly(recent) ==
    Seq1([i \in 1..Len(recent) |-> Message("user", recent[i].user_message)])

\* the two insert(0, ...) of lines 301-302 put the assistant message before the user message
RecentMessages(recent) ==
    Flatten([i \in 1..Len(recent) |->
                <<Message("assistant", recent[i].assistant_response),
                  Message("user", recent[i].user_message)>>])

\* mutant of InWindow: no search result is taken for a window record
InWindow_never(conv, window) == FALSE

\* any(c for c in self.short_term_memory if c['timestamp'] == conv['timestamp']),
\* lines 315-316
InWindow(conv, window) ==
    \E i \in 1..Len(window) : window[i].timestamp = conv.timestamp

\* step 2, lines 313-326: the search results that are included, in result order
RECURSIVE RelevantTaken(_, _, _, _)
RelevantTaken(results, window, current_tokens, max_tokens) ==
    IF results = <<>> THEN <<>>
    ELSE LET conv == Head(results)
             dup == InWindow(conv, window)
         IN  IF ~dup /\ FitsBudget(current_tokens, TokensOf(conv), max_tokens)
             THEN <<conv>> \o RelevantTaken(Tail(results), window,
                                            current_tokens + TokensOf(conv), max_tokens)
             ELSE RelevantTaken(Tail(results), window, current_tokens, max_tokens)

RelevantMessages(relevant) ==
    Flatten([i \in 1..Len(relevant) |->
                <<Message("user", relevant[i].user_message),
                  Message("assistant", relevant[i].assistant_response)>>])

\* f"{score:.2f}": the score in hundredths, rounded half to even
Hundredths(score) ==
    LET q == (score.num * 100) \div score.den
        r == (score.num * 100) % score.den
    IN  IF 2 * r > score.den \/ (2 * r = score.den /\ q % 2 = 1) THEN q + 1 ELSE q

RecentTag == [tag |-> "recent"]

RelevantTag(score) == [tag |-> "relevant", score |-> Hundredths(score)]

SummaryTag == [tag |-> "summary"]

\* mutant of Assemble: the summary is appended at the end instead of inserted at the front
Assemble_summaryLast(summary, recent, relevant) == recent \o relevant \o summary

\* the order the three steps leave in context_messages and in context_sources: the recent
\* part is built by insert(0, ...) (lines 301-304), the relevant part by append (lines
\* 323-326), and the summary is inserted at index 0 last (lines 334-335)
Assemble(summary, recent, relevant) == summary \o recent \o relevant

\* returns [messages, sources]; `read_ok`: the search's read of the store did not fail
get_intelligent_context(window, summaries, file, current_message, max_tokens, read_ok) ==
    LET n_recent == RecentCount(window, Len(window), 0, max_tokens)
        recent == LastN(window, n_recent)
        recent_tokens == SumSeq([i \in 1..Len(recent) |-> TokensOf(recent[i])])
        remaining_tokens == max_tokens - recent_tokens
        relevant ==
            IF remaining_tokens > 200
            THEN RelevantTaken(search_relevant_conversations(file, current_message, 3, read_ok),
                               window, recent_tokens, max_tokens)
            ELSE <<>>
        current_tokens ==
            recent_tokens + SumSeq([i \in 1..Len(relevant) |-> TokensOf(relevant[i])])
        summary_text ==
            IF summaries # <<>> /\ remaining_tokens > 100
            THEN _get_relevant_summaries(summaries, current_message)
            ELSE <<>>
        with_summary ==
            /\ summary_text # <<>>
            /\ FitsBudget(current_tokens, _estimate_tokens(summary_text), max_tokens)
    IN  [messages |->
            Assemble(IF with_summary THEN <<Message("system", ResumenText \o summary_text)>>
                     ELSE <<>>,
                     RecentMessages(recent), RelevantMessages(relevant)),
         sources |->
            Assemble(IF with_summary THEN <<SummaryTag>> ELSE <<>>,
                     [i \in 1..Len(recent) |-> RecentTag],
                     [i \in 1..Len(relevant) |-> RelevantTag(relevant[i].relevance_score)])]

(***************************************************************************)
(* Storage steps.  `io` names the one storage operation of the call that   *)
(* fails, "ok" when none does.                                             *)
(***************************************************************************)
\* mutant of AppendToHistory: the file is rewritten with the new record alone
AppendToHistory_only(history, interaction) == <<interaction>>

\* history.append(interaction), line 69
AppendToHistory(history, interaction) == Append(history, interaction)

\* MemorySystem._save_to_long_term: the file afterwards
_save_to_long_term(file, interaction, io) ==
    IF Exists(file) /\ (io = "save_read" \/ ~Readable(file)) THEN file   \* json.load raises
    ELSE IF io = "save_open" THEN file                  \* open(..., 'w') raises
    ELSE IF io = "save_dump" THEN CorruptFile           \* truncated, then json.dump raises
    ELSE JsonFile(AppendToHistory(IF Exists(file) THEN file.data ELSE <<>>, interaction))

\* MemorySystem._save_summaries: the summary file afterwards
_save_summaries(file, summaries, io) ==
    IF Exists(file) /\ (io = "summary_read" \/ ~Readable(file)) THEN file
    ELSE IF io = "summary_open" THEN file
    ELSE IF io = "summary_dump" THEN CorruptFile
    ELSE JsonFile((IF Exists(file) THEN file.data ELSE <<>>) \o summaries)

\* mutant of TooFewToSummarize: the run goes on with any number of candidates
TooFewToSummarize_never(conversations_to_summarize) == FALSE

\* the test of line 189
TooFewToSummarize(conversations_to_summarize) == Len(conversations_to_summarize) < 10

\* mutant of Candidates: the whole log is summarized
Candidates_all(history) == history

\* history[:-SHORT_TERM_MEMORY_LIMIT], line 187
Candidates(history) == DropLastN(history, SHORT_TERM_MEMORY_LIMIT)

\* MemorySystem._create_conversation_summary: the summary file afterwards
_create_conversation_summary(history, sfile, io) ==
    LET conversations_to_summarize == Candidates(history)
    IN  IF TooFewToSummarize(conversations_to_summarize) THEN sfile
        ELSE IF \E i \in 1..Len(conversations_to_summarize) :
                    ~HasTexts(conversations_to_summarize[i]) THEN sfile     \* KeyError
        ELSE _save_summaries(sfile, _group_conversations_by_time(conversations_to_summarize), io)

\* mutant of ReachedThreshold: summarization is attempted on every append
ReachedThreshold_always(history) == TRUE

\* the test of line 177
ReachedThreshold(history) == Len(history) >= LONG_TERM_SUMMARY_THRESHOLD

\* MemorySystem._check_and_summarize: the summary file afterwards
_check_and_summarize(mfile, sfile, io) ==
    IF ~Exists(mfile) THEN sfile
    ELSE IF io = "check_read" \/ ~Readable(mfile) THEN sfile
    ELSE IF ReachedThreshold(mfile.data) THEN _create_conversation_summary(mfile.data, sfile, io)
    ELSE sfile

\* MemorySystem.load_summaries: the cache afterwards
load_summaries(cache, sfile, read_ok) ==
    IF ~Exists(sfile) THEN cache
    ELSE IF read_ok /\ Readable(sfile) THEN sfile.data
    ELSE <<>>

(***************************************************************************)
(* Operations                                                              *)
(***************************************************************************)
\* mutant of Evict: the newest record is dropped instead of the oldest
Evict_newest(window) ==
    IF Len(window) > SHORT_TERM_MEMORY_LIMIT THEN SubSeq(window, 1, Len(window) - 1) ELSE window

\* mutant of Evict: the limit is never enforced
Evict_never(window) == window

\* lines 44-45: if len(...) > SHORT_TERM_MEMORY_LIMIT: pop(0)
Evict(window) ==
    IF Len(window) > SHORT_TERM_MEMORY_LIMIT THEN Tail(window) ELSE window

\* the clock when the next datetime.now() is read
Advance(ts, days) ==
    IF days = 0 THEN [ts EXCEPT !.us = @ + 1] ELSE PlusDays(ts, days)

\* mutant of WindowAfterAdd: the record enters the window only when it was persisted
WindowAfterAdd_ifSaved(window, interaction, io) ==
    IF io = "ok" THEN Evict(Append(window, interaction)) ELSE window

\* lines 41-45, which run before any storage step of the call
WindowAfterAdd(window, interaction, io) == Evict(Append(window, interaction))

\* the storage operations that sit inside a try/except Exception:
\* lines 61-76 (_save_to_long_term), 169-181 (_check_and_summarize), 256-270
\* (_save_summaries), 80-95 (load_from_long_term), 102-134 (search_relevant_conversations),
\* 274-281 (load_summaries), 388-407 (get_memory_stats)
HandledFaults ==
    {"save_read", "save_open", "save_dump", "check_read",
     "summary_read", "summary_open", "summary_dump",
     "load_read", "search_read", "summaries_read", "stats_read", "stats_size"}

\* the failed storage operation raises out of the call that made it; the os.makedirs of
\* ensure_data_directories (lines 26-27, called at line 21) is in no try block
Escapes(io) == io # "ok" /\ io \notin HandledFaults

add_interaction(user_message, assistant_response, metadata, io, days) ==
    LET interaction == NewInteraction(Advance(now, days), user_message, assistant_response,
                                      metadata)
    IN  /\ now' = Advance(now, days)
        /\ short_term_memory' = WindowAfterAdd(short_term_memory, interaction, io)
        /\ memory_file' = _save_to_long_term(memory_file, interaction, io)
        /\ summary_file' = IF Escapes(io) THEN summary_file
                           ELSE _check_and_summarize(memory_file', summary_file, io)
        /\ appended' = Append(appended, interaction)
        /\ adds' = adds + 1
        /\ last' = [op |-> "add_interaction", io |-> io, interaction |-> interaction,
                    evicted |-> Len(short_term_memory) >= SHORT_TERM_MEMORY_LIMIT,
                    raised |-> Escapes(io)]
        /\ UNCHANGED <<conversation_summaries, from_empty>>

\* mutant of RecentInteractions: the whole log becomes the window
RecentInteractions_all(history) == history

\* history[-SHORT_TERM_MEMORY_LIMIT:], line 86
RecentInteractions(history) == LastN(history, SHORT_TERM_MEMORY_LIMIT)

load_from_long_term(io) ==
    /\ short_term_memory' =
          IF Exists(memory_file) /\ io = "ok" /\ Readable(memory_file)
          THEN RecentInteractions(memory_file.data)
          ELSE short_term_memory
    /\ appended' = IF short_term_memory' = short_term_memory THEN appended ELSE <<>>
    /\ from_empty' = IF short_term_memory' = short_term_memory THEN from_empty
                     ELSE short_term_memory' = <<>>
    /\ last' = [op |-> "load_from_long_term", io |-> io, raised |-> Escapes(io)]
    /\ UNCHANGED <<conversation_summaries, memory_file, summary_file, now, adds>>

clear_short_term ==
    /\ short_term_memory' = <<>>
    /\ appended' = <<>>
    /\ from_empty' = TRUE
    /\ last' = [op |-> "clear_short_term"]
    /\ UNCHANGED <<conversation_summaries, memory_file, summary_file, now, adds>>

\* mutant of SearchRelevant: the scores of the query are written into the stored records
SearchRelevant_writeback(query, limit, io) ==
    /\ last' = [op |-> "search_relevant_conversations", query |-> query, limit |-> limit,
                io |-> io, raised |-> Escapes(io),
                results |-> search_relevant_conversations(memory_file, query, limit, io = "ok")]
    /\ memory_file' =
          IF Readable(memory_file)
          THEN JsonFile(Seq1([i \in 1..Len(memory_file.data) |->
                   ScoredCopy(memory_file.data[i],
                              _calculate_relevance_score(_extract_terms(Lower(query)),
                                                         Lower(ConvText(memory_file.data[i]))))]))
          ELSE memory_file
    /\ UNCHANGED <<short_term_memory, conversation_summaries, summary_file,
                   now, appended, from_empty, adds>>

SearchRelevant(query, limit, io) ==
    /\ last' = [op |-> "search_relevant_conversations", query |-> query, limit |-> limit,
                io |-> io, raised |-> Escapes(io),
                results |-> search_relevant_conversations(memory_file, query, limit, io = "ok")]
    /\ UNCHANGED <<short_term_memory, conversation_summaries, memory_file, summary_file,
                   now, appended, from_empty, adds>>

GetIntelligentContext(current_message, max_tokens, io) ==
    /\ LET context == get_intelligent_context(short_term_memory, conversation_summaries,
                                              memory_file, current_message, max_tokens,
                                              io = "ok")
       IN  last' = [op |-> "get_intelligent_context", current_message |-> current_message,
                    max_tokens |-> max_tokens, io |-> io, raised |-> Escapes(io),
                    messages |-> context.messages, sources |-> context.sources]
    /\ UNCHANGED <<short_term_memory, conversation_summaries, memory_file, summary_file,
                   now, appended, from_empty, adds>>

\* MemorySystem.get_memory_stats: the dictionary returned, {} when the read of the store
\* or os.path.getsize fails.  The size in bytes of the file is not part of the model:
\* "memory_file_size" tells only whether the file exists.
get_memory_stats(window, summaries, file, io) ==
    IF Exists(file) /\ (io \in {"stats_read", "stats_size"} \/ ~Readable(file)) THEN <<>>
    ELSE [total_conversations |-> Len(file.data),
          active_conversations |-> Len(window),
          total_tokens |-> TokensTotal(file.data),
          summaries_count |-> Len(summaries),
          memory_file_size |-> IF Exists(file) THEN "getsize" ELSE "0"]

GetMemoryStats(io) ==
    /\ last' = [op |-> "get_memory_stats", io |-> io, raised |-> Escapes(io),
                stats |-> get_memory_stats(short_term_memory, conversation_summaries,
                                           memory_file, io)]
    /\ UNCHANGED <<short_term_memory, conversation_summaries, memory_file, summary_file,
                   now, appended, from_empty, adds>>

(***************************************************************************)
(* The environment: the texts of the conversations, what earlier sessions  *)
(* left in the two files, and the bounds of the exploration.               *)
(***************************************************************************)
MaxAdds == 2            \* add_interaction calls per behaviour of Spec and SpecBudget
MaxSessionAdds == 12    \* add_interaction calls per behaviour of SpecSession
MaxSummaryAdds == 2     \* add_interaction calls per behaviour of SpecSummarize
MaxTextLen == 5         \* length of the texts of SpecTerms
MaxQueryTerms == 2      \* length of the query term lists of SpecScore
MaxWords == 3           \* words of the candidate texts of SpecScore

ClimaHoy == <<"C", "l", "i", "m", "a", " ", "h", "o", "y", "?">>
SolCalor == <<"S", "o", "l", ",", " ", "c", "a", "l", "o", "r", ".">>
MarHoy == <<"M", "a", "r", " ", "h", "o", "y">>
QueMar == <<"Q", "u", "e", " ", "m", "a", "r", "!">>
Ok == <<"o", "k">>
Y == <<"y">>
SolQuery == <<"s", "o", "l", "?">>
MarQuery == <<"E", "l", " ", "m", "a", "r">>
MarLargo == Rep(<<"m", "a", "r", " ">>, 100)
SolLargo == Rep(<<"s", "o", "l", " ">>, 95)

\* metadata or {}
NoMetadata == <<>>

Turn(user_message, assistant_response) == [u |-> user_message, a |-> assistant_response]

\* what a turn of the conversation hands to add_interaction
Interactions == {Turn(SolQuery, SolCalor), Turn(Ok, Y)}

BaseDate == Timestamp(2024, 12, 9, 0)

StartOfSession == Timestamp(2025, 3, 10, 0)

\* the log an earlier session left after n turns, two turns every three days
PreLog(n) ==
    Seq1([i \in 1..n |->
        LET turn == CASE i % 3 = 0 -> Turn(ClimaHoy, SolCalor)
                      [] i % 3 = 1 -> Turn(MarHoy, QueMar)
                      [] OTHER -> Turn(Ok, Y)
        IN  NewInteraction(PlusDays(BaseDate, ((i - 1) * 3) \div 2), turn.u, turn.a, NoMetadata)])

\* a short log with one long conversation
OldLog ==
    <<NewInteraction(Timestamp(2024, 12, 1, 0), MarLargo, SolLargo, NoMetadata),
      NewInteraction(Timestamp(2024, 12, 2, 0), ClimaHoy, SolCalor, NoMetadata),
      NewInteraction(Timestamp(2024, 12, 3, 0), Ok, Y, NoMetadata)>>

\* a record that lost its "assistant_response" key
NoReply(ts, user_message) ==
    [timestamp |-> ts, user_message |-> user_message, metadata |-> NoMetadata,
     tokens_used |-> _estimate_tokens(user_message), relevance_score |-> InitialScore]

\* a "timestamp" that datetime.fromisoformat rejects: the text "ayer"
Ayer == [text |-> <<"a", "y", "e", "r">>]

\* a store with a record that has no assistant_response between two complete records
TornLog ==
    <<NewInteraction(Timestamp(2024, 12, 1, 0), ClimaHoy, SolCalor, NoMetadata),
      NoReply(Timestamp(2024, 12, 2, 0), SolQuery),
      NewInteraction(Timestamp(2024, 12, 3, 0), Ok, Y, NoMetadata)>>

\* PreLog(n) with the timestamp of its third record replaced by "ayer"
DatedLog(n) == [PreLog(n) EXCEPT ![3] = [@ EXCEPT !.timestamp = Ayer]]

\* the summaries an earlier session wrote for the first week of PreLog
OldSummaries == _group_conversations_by_time(PreLog(5))

\* MemorySystem.__init__: an empty window, the cache loaded from the summary file
Constructed(mfile, sfile) ==
    /\ short_term_memory = <<>>
    /\ conversation_summaries = load_summaries(<<>>, sfile, TRUE)
    /\ memory_file = mfile
    /\ summary_file = sfile
    /\ now = StartOfSession
    /\ appended = <<>>
    /\ from_empty = TRUE
    /\ adds = 0
    /\ last = [op |-> "__init__"]

\* MemorySystem(): `io` names the storage operation of the constructor that fails.  When
\* os.makedirs raises, the exception leaves __init__ and no instance exists.
Construct(mfile, sfile, io) ==
    /\ short_term_memory = <<>>
    /\ conversation_summaries =
          IF Escapes(io) THEN <<>> ELSE load_summaries(<<>>, sfile, io # "summaries_read")
    /\ memory_file = mfile
    /\ summary_file = sfile
    /\ now = StartOfSession
    /\ appended = <<>>
    /\ from_empty = TRUE
    /\ adds = 0
    /\ last = [op |-> "__init__", io |-> io, raised |-> Escapes(io)]

\* the constructor returned an instance, so its methods can be called
Alive == ~(last.op = "__init__" /\ "raised" \in DOMAIN last /\ last.raised)

(***************************************************************************)
(* Spec: a session over a short store, with storage faults on the append   *)
(***************************************************************************)
Init ==
    \E mfile \in {MissingFile, JsonFile(PreLog(SHORT_TERM_MEMORY_LIMIT + 1))},
       sfile \in {MissingFile, JsonFile(OldSummaries)} :
        Constructed(mfile, sfile)

\* the calls of the two read-only operations that a behaviour of Spec makes
SearchCalls ==
    ({SolQuery, MarQuery} \X {0, 2} \X {"ok"})
        \cup {<<SolQuery, RELEVANCE_SEARCH_LIMIT, "ok">>, <<SolQuery, 2, "search_read">>}

ContextCalls ==
    ({SolQuery} \X {0, 5, MAX_CONTEXT_TOKENS}) \cup {<<MarQuery, MAX_CONTEXT_TOKENS>>}

Next ==
    \/ \E turn \in Interactions, io \in {"ok", "save_read", "save_dump"} :
          adds < MaxAdds /\ add_interaction(turn.u, turn.a, NoMetadata, io, 0)
    \/ \E io \in {"ok", "load_read"} : load_from_long_term(io)
    \/ clear_short_term
    \/ \E call \in SearchCalls : SearchRelevant(call[1], call[2], call[3])
    \/ \E call \in ContextCalls : GetIntelligentContext(call[1], call[2], "ok")

Spec == Init /\ [][Next]_vars

(***************************************************************************)
(* SpecBudget: contexts composed over a store that holds a long            *)
(* conversation, with a summary in the cache                               *)
(***************************************************************************)
InitBudget == Constructed(JsonFile(OldLog), JsonFile(OldSummaries))

NextBudget ==
    \/ \E turn \in Interactions, io \in {"ok", "save_dump"} :
          adds < MaxAdds /\ add_interaction(turn.u, turn.a, NoMetadata, io, 0)
    \/ load_from_long_term("ok")
    \/ clear_short_term
    \/ \E message \in {SolQuery, MarQuery}, max_tokens \in {0, 3, 150, 220, 230} :
          GetIntelligentContext(message, max_tokens, "ok")

SpecBudget == InitBudget /\ [][NextBudget]_vars

(***************************************************************************)
(* SpecSession: one long session that starts with no files                 *)
(***************************************************************************)
InitSession == Constructed(MissingFile, MissingFile)

NextSession ==
    \/ \E io \in {"ok", "save_open"} :
          adds < MaxSessionAdds /\ add_interaction(SolQuery, SolCalor, NoMetadata, io, 0)
    \/ clear_short_term

SpecSession == InitSession /\ [][NextSession]_vars

(***************************************************************************)
(* SpecSummarize: sessions over a store that is about to reach the         *)
(* summarization threshold, with storage faults in the summarizer          *)
(***************************************************************************)
InitSummarize ==
    \E n \in {SHORT_TERM_MEMORY_LIMIT + 5, 30, LONG_TERM_SUMMARY_THRESHOLD - 2, LONG_TERM_SUMMARY_THRESHOLD + 8},
       sfile \in {MissingFile, JsonFile(OldSummaries)} :
        Constructed(JsonFile(PreLog(n)), sfile)

NextSummarize ==
    \/ \E days \in {0, 7}, io \in {"ok", "check_read", "summary_read", "summary_dump"} :
          adds < MaxSummaryAdds /\ add_interaction(SolQuery, SolCalor, NoMetadata, io, days)
    \/ load_from_long_term("ok")

SpecSummarize == InitSummarize /\ [][NextSummarize]_vars

(***************************************************************************)
(* SpecStore: every operation over a store that is one record short of the *)
(* summarization threshold, or not yet created                             *)
(***************************************************************************)
InitStore ==
    \E mfile \in {MissingFile, JsonFile(PreLog(LONG_TERM_SUMMARY_THRESHOLD - 1))} :
        Constructed(mfile, MissingFile)

NextStore ==
    \/ \E turn \in Interactions, io \in {"ok", "save_dump"} :
          adds < MaxAdds /\ add_interaction(turn.u, turn.a, NoMetadata, io, 0)
    \/ load_from_long_term("ok")
    \/ clear_short_term
    \/ SearchRelevant(SolQuery, 2, "ok")
    \/ GetIntelligentContext(SolQuery, MAX_CONTEXT_TOKENS, "ok")

SpecStore == InitStore /\ [][NextStore]_vars

(***************************************************************************)
(* SpecFaults: one storage fault in any call, the constructor included,    *)
(* over a store one record short of the summarization threshold            *)
(***************************************************************************)
InitFaults ==
    \E io \in {"ok", "makedirs", "summaries_read"} :
        Construct(JsonFile(PreLog(LONG_TERM_SUMMARY_THRESHOLD - 1)), JsonFile(OldSummaries), io)

NextFaults ==
    \/ \E io \in {"ok", "save_read", "save_open", "save_dump", "check_read",
                   "summary_read", "summary_open", "summary_dump"} :
          Alive /\ adds < MaxSummaryAdds
                /\ add_interaction(SolQuery, SolCalor, NoMetadata, io, 0)
    \/ \E io \in {"ok", "load_read"} : Alive /\ load_from_long_term(io)
    \/ \E io \in {"ok", "search_read"} :
          Alive /\ SearchRelevant(SolQuery, RELEVANCE_SEARCH_LIMIT, io)
    \/ \E io \in {"ok", "search_read"} :
          Alive /\ GetIntelligentContext(SolQuery, MAX_CONTEXT_TOKENS, io)
    \/ \E io \in {"ok", "stats_read", "stats_size"} : Alive /\ GetMemoryStats(io)

SpecFaults == InitFaults /\ [][NextFaults]_vars

(***************************************************************************)
(* SpecMalformed: sessions over a store that holds one malformed record,   *)
(* either without its assistant_response or with an unparsable timestamp   *)
(***************************************************************************)
InitMalformed ==
    \E log \in {TornLog, DatedLog(LONG_TERM_SUMMARY_THRESHOLD - 1)} :
        Constructed(JsonFile(log), MissingFile)

NextMalformed ==
    \/ \E turn \in Interactions, io \in {"ok", "summary_read"} :
          adds < MaxAdds /\ add_interaction(turn.u, turn.a, NoMetadata, io, 0)
    \/ clear_short_term
    \/ \E call \in {<<SolQuery, RELEVANCE_SEARCH_LIMIT>>, <<MarQuery, 2>>} :
          SearchRelevant(call[1], call[2], "ok")
    \/ GetIntelligentContext(SolQuery, MAX_CONTEXT_TOKENS, "ok")

SpecMalformed == InitMalformed /\ [][NextMalformed]_vars

(***************************************************************************)
(* SpecSummaries: contexts composed with a cache of five weekly summaries  *)
(* of different topics                                                     *)
(***************************************************************************)
\* the log of five weeks of five turns each: the first and third week about the sea, the
\* others about the weather
TopicLog ==
    Seq1([i \in 1..25 |->
        LET week == (i - 1) \div 5
            turn == IF week \in {0, 2} THEN Turn(MarHoy, QueMar) ELSE Turn(ClimaHoy, SolCalor)
        IN  NewInteraction(PlusDays(BaseDate, 7 * week), turn.u, turn.a, NoMetadata)])

\* the summaries an earlier session wrote for TopicLog, one per week
TopicSummaries == _group_conversations_by_time(TopicLog)

InitSummaries == Constructed(JsonFile(OldLog), JsonFile(TopicSummaries))

NextSummaries ==
    \/ \E turn \in Interactions :
          adds < MaxAdds /\ add_interaction(turn.u, turn.a, NoMetadata, "ok", 0)
    \/ load_from_long_term("ok")
    \/ clear_short_term
    \/ \E message \in {SolQuery, MarQuery, Ok}, max_tokens \in {150, MAX_CONTEXT_TOKENS} :
          GetIntelligentContext(message, max_tokens, "ok")

SpecSummaries == InitSummaries /\ [][NextSummaries]_vars

(***************************************************************************)
(* SpecTerms: the term extractor applied to every text of up to MaxTextLen *)
(* characters over a small alphabet                                        *)
(***************************************************************************)
Alphabet == {"l", "a", "s", "L", " ", ","}

RECURSIVE TextsOfLen(_)
TextsOfLen(n) ==
    IF n = 0 THEN {<<>>}
    ELSE {Append(t, c) : t \in TextsOfLen(n - 1), c \in Alphabet}

InitTerms ==
    /\ short_term_memory = <<>>
    /\ conversation_summaries = <<>>
    /\ memory_file = MissingFile
    /\ summary_file = MissingFile
    /\ now = StartOfSession
    /\ appended = <<>>
    /\ from_empty = TRUE
    /\ adds = 0
    /\ \E n \in 0..MaxTextLen : \E text \in TextsOfLen(n) : last = [op |-> "text", text |-> text]

ExtractTerms ==
    /\ last.op = "text"
    /\ last' = [op |-> "_extract_terms", text |-> last.text, terms |-> _extract_terms(last.text)]
    /\ UNCHANGED <<short_term_memory, conversation_summaries, memory_file, summary_file,
                   now, appended, from_empty, adds>>

NextTerms == ExtractTerms

SpecTerms == InitTerms /\ [][NextTerms]_vars

(***************************************************************************)
(* The conversational loop: AdvancedConversationalAgent.run and            *)
(* AzureOpenAIClient.generate_response_stream                              *)
(***************************************************************************)
\* the content of config/system_prompt.txt
SystemPrompt == <<"E", "r", "e", "s", " ", "u", "t", "i", "l", ".">>

\* the text the client returns with an error
ErrorText == <<"E", "r", "r", "o", "r">>

\* how a model invocation ends: normally, or with one of the errors that
\* generate_response_stream catches (azure_client.py lines 105-132)
Outcomes == {"ok", "authentication", "rate_limit", "bad_request", "unexpected"}

\* the chunks in which the model streams its answer to a message
Chunks(user_input) ==
    IF user_input = SolQuery THEN <<<<"S", "o", "l", ",">>, <<" ", "c", "a", "l", "o", "r", ".">>>>
    ELSE <<<<"y">>>>

\* a value the generator yields: a str
StrChunk(text) == [str |-> text]

\* isinstance(chunk, str), cli_interface.py line 328
IsStr(chunk) == "str" \in DOMAIN chunk

\* AzureOpenAIClient._estimate_tokens: the characters of all the messages // 4
ClientTokens(messages) ==
    SumSeq([i \in 1..Len(messages) |-> Len(messages[i].content)]) \div 4

\* AzureOpenAIClient.generate_response_stream, a generator function: `yielded` are the
\* values of its yield statements, in order, and `returned` is the value of the return
\* statement that ends it.  `delivered` chunks arrive before an error.
generate_response_stream(user_message, context_messages, outcome, delivered) ==
    LET messages == <<Message("system", SystemPrompt)>> \o context_messages
                        \o <<Message("user", user_message)>>
        chunks == IF outcome = "ok" THEN Chunks(user_message)
                  ELSE FirstN(Chunks(user_message), delivered)
        full_response == Flatten(chunks)
    IN  [yielded |-> Seq1([i \in 1..Len(chunks) |-> StrChunk(chunks[i])]),
         returned |->
            IF outcome = "ok"
            THEN [metrics |-> [total_tokens |-> ClientTokens(messages)
                                                   + ClientTokens(<<Message("assistant",
                                                                            full_response)>>),
                               response_time |-> 1],
                  text |-> full_response]
            ELSE [metrics |-> [error |-> outcome], text |-> ErrorText]]

\* what `for chunk in response_generator` binds chunk to, in order: the yielded values.
\* The value of the generator's return statement is carried by StopIteration, which the
\* for statement consumes; it is not a value of the iteration.
Iterated(stream) == stream.yielded

\* metrics = {}
EmptyMetrics == <<>>

\* metrics.get(key, default)
MetricsGet(metrics, key, default) == IF key \in DOMAIN metrics THEN metrics[key] ELSE default

\* the loop of cli_interface.py lines 327-336: text chunks are concatenated; the first
\* chunk that is not a str gives metrics and the complete response, and ends the loop
StreamLoop(chunks) ==
    LET NotStr(chunk) == ~IsStr(chunk)
        finals == SelectSeq(chunks, NotStr)
        texts == SelectSeq(chunks, IsStr)
    IN  IF finals = <<>>
        THEN [metrics |-> EmptyMetrics,
              full_response |-> Flatten([i \in 1..Len(texts) |-> texts[i].str])]
        ELSE [metrics |-> finals[1].metrics, full_response |-> finals[1].text]

\* not metrics.get('error'), line 342
NoError(metrics) == MetricsGet(metrics, "error", "") = ""

\* one turn of the loop of AdvancedConversationalAgent.run (lines 310-367) for an input
\* that is not a command: the context is composed, the model is invoked, and the turn is
\* saved with add_interaction when the metrics the loop holds report no error
RunTurn(user_input, outcome, delivered) ==
    LET context == get_intelligent_context(short_term_memory, conversation_summaries,
                                           memory_file, user_input, MAX_CONTEXT_TOKENS, TRUE)
        stream == generate_response_stream(user_input, context.messages, outcome, delivered)
        loop == StreamLoop(Iterated(stream))
        metadata == [response_time |-> MetricsGet(loop.metrics, "response_time", 0),
                     tokens |-> MetricsGet(loop.metrics, "total_tokens", 0),
                     context_sources |-> context.sources]
        interaction == NewInteraction(Advance(now, 0), user_input, loop.full_response, metadata)
    IN  IF NoError(loop.metrics)
        THEN /\ now' = Advance(now, 0)
             /\ short_term_memory' = WindowAfterAdd(short_term_memory, interaction, "ok")
             /\ memory_file' = _save_to_long_term(memory_file, interaction, "ok")
             /\ summary_file' = _check_and_summarize(memory_file', summary_file, "ok")
             /\ appended' = Append(appended, interaction)
             /\ adds' = adds + 1
             /\ last' = [op |-> "run", outcome |-> outcome, recorded |-> TRUE,
                         interaction |-> interaction]
             /\ UNCHANGED <<conversation_summaries, from_empty>>
        ELSE /\ last' = [op |-> "run", outcome |-> outcome, recorded |-> FALSE]
             /\ UNCHANGED <<short_term_memory, conversation_summaries, memory_file,
                            summary_file, now, appended, from_empty, adds>>

(***************************************************************************)
(* SpecChat: the conversational loop over a short store, with model        *)
(* invocations that end in each of the errors the client reports           *)
(***************************************************************************)
InitChat == Constructed(JsonFile(PreLog(3)), MissingFile)

NextChat ==
    \/ load_from_long_term("ok")
    \/ clear_short_term
    \/ \E user_input \in {SolQuery, Ok}, outcome \in Outcomes, delivered \in {0, 1} :
          /\ adds < MaxAdds
          /\ outcome # "rate_limit" => delivered = 0
          /\ RunTurn(user_input, outcome, delivered)

SpecChat == InitChat /\ [][NextChat]_vars

(***************************************************************************)
(* SpecReload: appends, clears and reloads with every storage operation    *)
(* succeeding, over no store, a store shorter than the window and a store  *)
(* longer than it                                                          *)
(***************************************************************************)
InitReload ==
    \E mfile \in {MissingFile, JsonFile(PreLog(SHORT_TERM_MEMORY_LIMIT \div 2)),
                  JsonFile(PreLog(SHORT_TERM_MEMORY_LIMIT + 2))} :
        Constructed(mfile, JsonFile(OldSummaries))

NextReload ==
    \/ \E turn \in Interactions :
          adds < MaxAdds /\ add_interaction(turn.u, turn.a, NoMetadata, "ok", 0)
    \/ load_from_long_term("ok")
    \/ clear_short_term

SpecReload == InitReload /\ [][NextReload]_vars

(***************************************************************************)
(* SpecScore: the relevance scorer applied to every list of up to          *)
(* MaxQueryTerms query terms and every text of up to MaxWords words        *)
(***************************************************************************)
\* the terms a query can hold
QueryWords == {<<"s", "o", "l">>, <<"m", "a", "r">>, <<"h", "o", "y">>}

\* the words of a candidate text: two terms, a term with punctuation, a stopword
TextWords == {<<"s", "o", "l">>, <<"m", "a", "r">>, <<"s", "o", "l", ",">>, <<"d", "e">>}

RECURSIVE SeqsOfLen(_, _)
SeqsOfLen(words, n) ==
    IF n = 0 THEN {<<>>}
    ELSE {Append(t, w) : t \in SeqsOfLen(words, n - 1), w \in words}

InitScore ==
    /\ short_term_memory = <<>>
    /\ conversation_summaries = <<>>
    /\ memory_file = MissingFile
    /\ summary_file = MissingFile
    /\ now = StartOfSession
    /\ appended = <<>>
    /\ from_empty = TRUE
    /\ adds = 0
    /\ \E n \in 0..MaxQueryTerms, m \in 0..MaxWords :
          \E query_terms \in SeqsOfLen(QueryWords, n), words \in SeqsOfLen(TextWords, m) :
              last = [op |-> "candidate", query_terms |-> query_terms,
                      text |-> Join(<<" ">>, words)]

CalculateRelevanceScore ==
    /\ last.op = "candidate"
    /\ last' = [op |-> "_calculate_relevance_score", query_terms |-> last.query_terms,
                text |-> last.text,
                score |-> _calculate_relevance_score(last.query_terms, last.text)]
    /\ UNCHANGED <<short_term_memory, conversation_summaries, memory_file, summary_file,
                   now, appended, from_empty, adds>>

NextScore == CalculateRelevanceScore

SpecScore == InitScore /\ [][NextScore]_vars

(***************************************************************************)
(* Properties                                                              *)
(***************************************************************************)
\* the elements of a sequence
Range(s) == {s[i] : i \in 1..Len(s)}

\* the estimated token cost of a returned message list: len(content) // 4 of every message
ContextCost(messages) ==
    SumSeq([i \in 1..Len(messages) |-> _estimate_tokens(messages[i].content)])

\* the record shares an extracted term with the query
SharesTerm(query, conv) ==
    Range(_extract_terms(Lower(query))) \cap Range(_extract_terms(Lower(ConvText(conv)))) # {}

\* the summaries a file holds: none when it is missing
Stored(file) == IF file.state = "ok" THEN file.data ELSE <<>>

\* C1: the messages get_intelligent_context returns never cost more estimated tokens,
\* the summary system message included, than the budget max_tokens.
C1_BudgetRespected ==
    last.op = "get_intelligent_context" => ContextCost(last.messages) <= last.max_tokens

\* C2: the short-term window never holds more than SHORT_TERM_MEMORY_LIMIT records, and
\* an add_interaction on a full window drops exactly the oldest record and puts the new
\* one at the tail.
C2_WindowBoundedFifo ==
    [][/\ Len(short_term_memory') <= SHORT_TERM_MEMORY_LIMIT
       /\ (last'.op = "add_interaction" /\ Len(short_term_memory) = SHORT_TERM_MEMORY_LIMIT)
             => short_term_memory' = Append(Tail(short_term_memory), last'.interaction)]_vars

C2_Witness ==
    /\ last.op = "add_interaction"
    /\ last.evicted
    /\ Len(short_term_memory) = SHORT_TERM_MEMORY_LIMIT

\* C3: starting from an empty window, after k add_interaction calls the window is
\* exactly the last min(k, SHORT_TERM_MEMORY_LIMIT) records added, in the order added.
C3_WindowIsLastAppended ==
    from_empty =>
        short_term_memory =
            SubSeq(appended, Len(appended) - Min(Len(appended), SHORT_TERM_MEMORY_LIMIT) + 1,
                   Len(appended))

\* twelve appends leave the third to the twelfth
C3_Witness ==
    /\ from_empty
    /\ Len(appended) = SHORT_TERM_MEMORY_LIMIT + 2
    /\ short_term_memory = SubSeq(appended, 3, SHORT_TERM_MEMORY_LIMIT + 2)

\* C4: while storage I/O succeeds the persistent store is append-only: add_interaction
\* extends it by exactly the new record at the tail, and no other operation changes it.
C4_StoreAppendOnly ==
    [][IF last'.op = "add_interaction"
       THEN (last'.io = "ok" /\ memory_file.state # "corrupt")
                => memory_file' = JsonFile(Stored(memory_file) \o <<last'.interaction>>)
       ELSE memory_file' = memory_file]_vars

C4_Witness ==
    /\ last.op = "add_interaction" /\ last.io = "ok"
    /\ Len(appended) = 2
    /\ memory_file.state = "ok"
    /\ Len(memory_file.data) = LONG_TERM_SUMMARY_THRESHOLD + 1
    /\ SubSeq(memory_file.data, LONG_TERM_SUMMARY_THRESHOLD, LONG_TERM_SUMMARY_THRESHOLD + 1)
          = appended
    /\ summary_file.state = "ok"

\* C5: search_relevant_conversations returns at most `limit` records, each with a
\* strictly positive score and sharing a term with the query, sorted by non-increasing
\* score.
C5_SearchResults ==
    last.op = "search_relevant_conversations" =>
        /\ Len(last.results) <= last.limit
        /\ \A i \in 1..Len(last.results) :
              /\ ScorePositive(last.results[i].relevance_score)
              /\ SharesTerm(last.query, last.results[i])
        /\ \A i, j \in 1..Len(last.results) :
              i < j => ~ScoreGT(last.results[j].relevance_score, last.results[i].relevance_score)

\* two hits in score order, the better one later in the store, and a record left out
C5_Witness ==
    /\ last.op = "search_relevant_conversations"
    /\ last.limit = RELEVANCE_SEARCH_LIMIT
    /\ Len(last.results) = 4
    /\ ScoreGT(last.results[1].relevance_score, last.results[2].relevance_score)
    /\ last.results[1].timestamp = memory_file.data[Len(memory_file.data)].timestamp
    /\ \E i \in 1..Len(memory_file.data) : ~SharesTerm(last.query, memory_file.data[i])

\* C6: the summary file changes only in an add_interaction that leaves at least
\* LONG_TERM_SUMMARY_THRESHOLD records in the store, and never when fewer than 10
\* records lie before the last SHORT_TERM_MEMORY_LIMIT of the store.
C6_SummarizeOnlyAtThreshold ==
    [][/\ summary_file' # summary_file
             => /\ last'.op = "add_interaction"
                /\ memory_file'.state = "ok"
                /\ Len(memory_file'.data) >= LONG_TERM_SUMMARY_THRESHOLD
       /\ (memory_file'.state = "ok"
             /\ Len(memory_file'.data) - SHORT_TERM_MEMORY_LIMIT < 10)
             => summary_file' = summary_file]_vars

\* a summary was written in this session, with the store at the threshold
C6_Witness ==
    /\ last.op = "add_interaction"
    /\ memory_file.state = "ok"
    /\ Len(memory_file.data) = LONG_TERM_SUMMARY_THRESHOLD
    /\ summary_file.state = "ok"
    /\ Len(summary_file.data) > Len(conversation_summaries)

\* the number of candidates of a store in the week bucket `week`
BucketSize(history, week) ==
    Cardinality({i \in 1..(Len(history) - SHORT_TERM_MEMORY_LIMIT) :
                    WeekKey(history[i].timestamp) = week})

\* C7: a summarization run takes as candidates the store without its last
\* SHORT_TERM_MEMORY_LIMIT records and appends exactly one summary, counting the bucket's
\* candidates, for every week bucket of 5 or more candidates, and none for a smaller one.
C7_OneSummaryPerFullWeek ==
    [][(/\ last'.op = "add_interaction" /\ last'.io = "ok"
        /\ memory_file'.state = "ok"
        /\ Len(memory_file'.data) >= LONG_TERM_SUMMARY_THRESHOLD
        /\ summary_file.state # "corrupt")
       => LET history == memory_file'.data
              before == Stored(summary_file)
              after == Stored(summary_file')
              produced == SubSeq(after, Len(before) + 1, Len(after))
              weeks == {WeekKey(history[i].timestamp) :
                           i \in 1..(Len(history) - SHORT_TERM_MEMORY_LIMIT)}
                           \cup {produced[k].period : k \in 1..Len(produced)}
          IN  /\ summary_file'.state = "ok"
              /\ Len(after) >= Len(before)
              /\ SubSeq(after, 1, Len(before)) = before
              /\ \A week \in weeks :
                    LET made == {k \in 1..Len(produced) : produced[k].period = week}
                    IN  IF BucketSize(history, week) >= 5
                        THEN /\ Cardinality(made) = 1
                             /\ \A k \in made :
                                   produced[k].conversation_count = BucketSize(history, week)
                        ELSE made = {}]_vars

\* the run over 60 records: some bucket of the first 50 is summarized, some is not
C7_Witness ==
    /\ last.op = "add_interaction" /\ last.io = "ok"
    /\ memory_file.state = "ok"
    /\ Len(memory_file.data) = LONG_TERM_SUMMARY_THRESHOLD + SHORT_TERM_MEMORY_LIMIT
    /\ summary_file.state = "ok"
    /\ Len(summary_file.data) > Len(conversation_summaries)
    /\ \E i \in 1..LONG_TERM_SUMMARY_THRESHOLD :
          BucketSize(memory_file.data, WeekKey(memory_file.data[i].timestamp)) < 5
    /\ \E i \in 1..LONG_TERM_SUMMARY_THRESHOLD :
          BucketSize(memory_file.data, WeekKey(memory_file.data[i].timestamp)) >= 5

\* C8: with max_tokens = 0 get_intelligent_context returns no message and no tag,
\* whatever the window, the store and the cache hold.
C8_ZeroBudgetEmpty ==
    (last.op = "get_intelligent_context" /\ last.max_tokens = 0)
        => (last.messages = <<>> /\ last.sources = <<>>)

C10_WindowKeepsRecord ==
    last.op = "add_interaction" =>
        /\ ~last.raised
        /\ short_term_memory # <<>>
        /\ short_term_memory[Len(short_term_memory)] = last.interaction

\* the write failed part-way and the record is in the window all the same
C10_Witness ==
    /\ last.op = "add_interaction" /\ last.io = "save_dump"
    /\ memory_file.state = "corrupt"
    /\ short_term_memory[Len(short_term_memory)] = last.interaction

\* C11: a write that fails part-way in add_interaction leaves the store a complete,
\* valid log that still holds every record persisted before the call.
C11_FailedWriteKeepsLog ==
    [][(last'.op = "add_interaction" /\ last'.io # "ok" /\ memory_file.state = "ok")
          => /\ memory_file'.state = "ok"
             /\ Len(memory_file'.data) >= Len(memory_file.data)
             /\ SubSeq(memory_file'.data, 1, Len(memory_file.data)) = memory_file.data]_vars

\* C12: when load_from_long_term cannot read the store, or the store is malformed, the
\* window afterwards is the empty sequence.
C12_FailedLoadEmptiesWindow ==
    (last.op = "load_from_long_term" /\ (last.io # "ok" \/ memory_file.state = "corrupt"))
        => short_term_memory = <<>>

\* C13: no failing read, write or directory operation on the store or the summary log
\* raises out of the constructor or of any method of MemorySystem.
C13_NoStorageFaultEscapes ==
    ("io" \in DOMAIN last /\ last.io # "ok") => ~last.raised

\* the store without its records that lack a text
WellFormed(history) == SelectSeq(history, HasTexts)

\* C14: a record of the store without user_message or assistant_response is skipped by
\* search_relevant_conversations: the result is the one the search gives on the store
\* without that record.
C14_MalformedRecordSkipped ==
    (last.op = "search_relevant_conversations" /\ last.io = "ok" /\ memory_file.state = "ok")
        => last.results =
              search_relevant_conversations(JsonFile(WellFormed(memory_file.data)),
                                            last.query, last.limit, TRUE)

\* the candidates of a store whose timestamp parses
ParsableCandidates(history) ==
    LET Parses(conv) == IsoParsable(conv.timestamp)
    IN  SelectSeq(SubSeq(history, 1, Len(history) - SHORT_TERM_MEMORY_LIMIT), Parses)

\* C15: a candidate whose timestamp cannot be parsed is in no week bucket, and the
\* summaries a run appends are those of the candidates without that record.
C15_BadTimestampSkipped ==
    [][(/\ last'.op = "add_interaction" /\ last'.io = "ok"
        /\ memory_file'.state = "ok"
        /\ Len(memory_file'.data) >= LONG_TERM_SUMMARY_THRESHOLD
        /\ summary_file.state # "corrupt")
       => LET before == Stored(summary_file)
              after == Stored(summary_file')
              produced == SubSeq(after, Len(before) + 1, Len(after))
              parsable == ParsableCandidates(memory_file'.data)
          IN  /\ Len(after) >= Len(before)
              /\ produced = _group_conversations_by_time(parsable)
              /\ \A k \in 1..Len(produced) :
                    /\ IsoParsable(produced[k].date_range.start)
                    /\ IsoParsable(produced[k].date_range.end)
                    /\ produced[k].conversation_count =
                          Cardinality({i \in 1..Len(parsable) :
                                          WeekKey(parsable[i].timestamp) = produced[k].period})]_vars

\* a run over candidates of which one has the timestamp "ayer" appended summaries, and
\* none for the week that record was written in, which keeps 4 dated candidates
C15_Witness ==
    /\ last.op = "add_interaction" /\ last.io = "ok"
    /\ memory_file.state = "ok"
    /\ Len(memory_file.data) = LONG_TERM_SUMMARY_THRESHOLD
    /\ memory_file.data[3].timestamp = Ayer
    /\ summary_file.state = "ok"
    /\ Len(summary_file.data) > 0
    /\ \A k \in 1..Len(summary_file.data) :
          summary_file.data[k].period # WeekKey(memory_file.data[1].timestamp)

\* C16: the summary log is append-only: whatever step is taken, the summaries it held
\* before are an unchanged prefix of the summaries it holds afterwards.
C16_SummaryLogAppendOnly ==
    [][summary_file.state = "ok"
          => /\ summary_file'.state = "ok"
             /\ Len(summary_file'.data) >= Len(summary_file.data)
             /\ SubSeq(summary_file'.data, 1, Len(summary_file.data)) = summary_file.data]_vars

\* C17: search_relevant_conversations and get_intelligent_context change neither the
\* store, the summary log, the window nor the summary cache; the score of a query lives
\* only in the returned copies.
C17_QueriesReadOnly ==
    [][last'.op \in {"search_relevant_conversations", "get_intelligent_context"}
          => /\ memory_file' = memory_file
             /\ summary_file' = summary_file
             /\ short_term_memory' = short_term_memory
             /\ conversation_summaries' = conversation_summaries]_vars

\* a search scored a record 2/3 that the store and the window still hold with score 1.0
C17_Witness ==
    /\ last.op = "search_relevant_conversations"
    /\ last.results # <<>>
    /\ last.results[1].relevance_score = Score(2, 3)
    /\ \E i \in 1..Len(memory_file.data) :
          /\ memory_file.data[i].timestamp = last.results[1].timestamp
          /\ memory_file.data[i].relevance_score = InitialScore
    /\ \E j \in 1..Len(short_term_memory) :
          /\ short_term_memory[j].timestamp = last.results[1].timestamp
          /\ short_term_memory[j].relevance_score = InitialScore

\* the number of elements of s that satisfy Test
CountIf(s, Test(_)) == Cardinality({i \in 1..Len(s) : Test(s[i])})

\* 1 when the tag list starts with the summary tag, else 0
SummaryUnits(sources) == IF sources # <<>> /\ sources[1].tag = "summary" THEN 1 ELSE 0

\* the score, for the query, of the interaction whose two messages start at position p
UnitScore(query, messages, p) ==
    _calculate_relevance_score(_extract_terms(Lower(query)),
        Lower(messages[p].content \o <<" ">> \o messages[p + 1].content))

\* C18: in the returned context the summary message, if any, is first; the messages of
\* recent interactions come before those of relevant ones; the relevant interactions are
\* in descending order of score; and the tags follow the same order of units.
C18_ContextOrder ==
    last.op = "get_intelligent_context" =>
        LET src == last.sources
            msg == last.messages
            s == SummaryUnits(src)
            \* the position in msg of the first message of the unit tagged by src[k]
            At(k) == s + 2 * (k - s) - 1
        IN  /\ \A i \in 1..Len(src) : src[i].tag = "summary" => i = 1
            /\ \A i \in 1..Len(msg) : msg[i].role = "system" <=> (i = 1 /\ s = 1)
            /\ \A i, j \in 1..Len(src) :
                  (i < j /\ src[i].tag = "relevant") => src[j].tag = "relevant"
            /\ \A k \in (s + 1)..Len(src) :
                  /\ At(k) + 1 <= Len(msg)
                  /\ src[k].tag = "recent" =>
                        \E w \in 1..Len(short_term_memory) :
                            {msg[At(k)].content, msg[At(k) + 1].content}
                                = {short_term_memory[w].user_message,
                                   short_term_memory[w].assistant_response}
                  /\ src[k].tag = "relevant" =>
                        /\ src[k].score = Hundredths(UnitScore(last.current_message, msg, At(k)))
                        /\ \E r \in 1..Len(memory_file.data) :
                              /\ msg[At(k)].content = memory_file.data[r].user_message
                              /\ msg[At(k) + 1].content = memory_file.data[r].assistant_response
            /\ \A k, l \in (s + 1)..Len(src) :
                  (k < l /\ src[k].tag = "relevant" /\ At(l) + 1 <= Len(msg))
                      => ~ScoreGT(UnitScore(last.current_message, msg, At(l)),
                                  UnitScore(last.current_message, msg, At(k)))

\* a context made of the summary, one recent interaction and two relevant ones of
\* different scores
C18_Witness ==
    /\ last.op = "get_intelligent_context"
    /\ Len(last.sources) = 4
    /\ last.sources[1].tag = "summary"
    /\ last.sources[2].tag = "recent"
    /\ last.sources[3].tag = "relevant"
    /\ last.sources[4].tag = "relevant"
    /\ last.sources[3].score > last.sources[4].score

\* C19: the context has one tag per included unit: as many tags as included interactions
\* plus one for the summary message, and two messages per interaction plus the summary
\* message.
C19_OneTagPerUnit ==
    last.op = "get_intelligent_context" =>
        LET IsUser(m) == m.role = "user"
            IsAssistant(m) == m.role = "assistant"
            IsSystem(m) == m.role = "system"
            IsSummaryTag(t) == t.tag = "summary"
            IsRecentTag(t) == t.tag = "recent"
            IsRelevantTag(t) == t.tag = "relevant"
            interactions == CountIf(last.messages, IsUser)
            summary == CountIf(last.messages, IsSystem)
        IN  /\ CountIf(last.messages, IsAssistant) = interactions
            /\ summary <= 1
            /\ CountIf(last.sources, IsSummaryTag) = summary
            /\ CountIf(last.sources, IsRecentTag) + CountIf(last.sources, IsRelevantTag)
                  = interactions
            /\ Len(last.sources) = interactions + summary
            /\ Len(last.messages) = 2 * interactions + summary

\* the summary and two relevant interactions: three tags, five messages
C19_Witness ==
    /\ last.op = "get_intelligent_context"
    /\ Len(last.sources) = 3
    /\ Len(last.messages) = 5
    /\ last.sources[1].tag = "summary"
    /\ last.sources[3].tag = "relevant"

\* C20: once a summary whose main_topics share a term with the message is in the summary
\* log, get_intelligent_context with the default budget returns a summary message.
C20_ContextUsesStoredSummaries ==
    (/\ last.op = "get_intelligent_context"
     /\ last.max_tokens = MAX_CONTEXT_TOKENS
     /\ \E k \in 1..Len(Stored(summary_file)) :
           TopicsMatch(_extract_terms(Lower(last.current_message)), Stored(summary_file)[k]))
        => (last.sources # <<>> /\ last.sources[1].tag = "summary")

\* the number of tags "recent" of a tag list
RecentUnits(sources) ==
    Cardinality({i \in 1..Len(sources) : sources[i].tag = "recent"})

\* C21: the recency messages of a returned context are in chronological order: the k-th
\* recent unit is the k-th of the newest included window records, and inside each unit the
\* user message comes before the assistant response.
C21_RecentChronological ==
    last.op = "get_intelligent_context" =>
        LET src == last.sources
            msg == last.messages
            s == SummaryUnits(src)
            n == RecentUnits(src)
            recent == LastN(short_term_memory, n)
        IN  \A k \in 1..n :
                /\ msg[s + 2 * k - 1] = Message("user", recent[k].user_message)
                /\ msg[s + 2 * k] = Message("assistant", recent[k].assistant_response)

\* the estimated cost of a sequence of records
CostOf(convs) == SumSeq([i \in 1..Len(convs) |-> TokensOf(convs[i])])

\* C22: the interactions tagged recent are the newest n records of the window, each with
\* its two whole texts; together they fit the budget, and the record just before them,
\* when there is one, would not have fitted: the walk stopped there, whatever older
\* records would still fit.
C22_RecentIsNewestSuffix ==
    last.op = "get_intelligent_context" =>
        LET src == last.sources
            msg == last.messages
            s == SummaryUnits(src)
            n == RecentUnits(src)
            recent == LastN(short_term_memory, n)
        IN  /\ n <= Len(short_term_memory)
            /\ \A k \in 1..n :
                  {msg[s + 2 * k - 1], msg[s + 2 * k]}
                      = {Message("user", recent[k].user_message),
                         Message("assistant", recent[k].assistant_response)}
            /\ CostOf(recent) <= last.max_tokens
            /\ n < Len(short_term_memory) =>
                  CostOf(recent) + TokensOf(short_term_memory[Len(short_term_memory) - n])
                      > last.max_tokens

\* a context with a recent interaction, a dropped one, and an older record that would
\* still have fitted
C22_Witness ==
    /\ last.op = "get_intelligent_context"
    /\ RecentUnits(last.sources) >= 1
    /\ \E j \in 1..(Len(short_term_memory) - RecentUnits(last.sources) - 1) :
          CostOf(LastN(short_term_memory, RecentUnits(last.sources)))
              + TokensOf(short_term_memory[j]) <= last.max_tokens

\* C23: no interaction is tagged relevant when its timestamp is that of a record of the
\* short-term window: for every pair of texts, the context has no more relevant units
\* with those texts than the store has records with those texts whose timestamp is not
\* in the window.
C23_RelevantNotInWindow ==
    last.op = "get_intelligent_context" =>
        LET src == last.sources
            msg == last.messages
            s == SummaryUnits(src)
            At(k) == s + 2 * (k - s) - 1
            relevant == {k \in 1..Len(src) : src[k].tag = "relevant"}
            SameTexts(k, conv) ==
                /\ "user_message" \in DOMAIN conv /\ "assistant_response" \in DOMAIN conv
                /\ msg[At(k)].content = conv.user_message
                /\ msg[At(k) + 1].content = conv.assistant_response
            outside == {r \in 1..Len(Stored(memory_file)) :
                           \A w \in 1..Len(short_term_memory) :
                               short_term_memory[w].timestamp
                                   # Stored(memory_file)[r].timestamp}
        IN  \A k \in relevant :
                Cardinality({l \in relevant : SameTexts(l, [user_message |-> msg[At(k)].content,
                                                 assistant_response |-> msg[At(k) + 1].content])})
                    <= Cardinality({r \in outside : SameTexts(k, Stored(memory_file)[r])})

\* a context with a relevant interaction, returned while a window record that is also in
\* the store shares a term with the message
C23_Witness ==
    /\ last.op = "get_intelligent_context"
    /\ \E k \in 1..Len(last.sources) : last.sources[k].tag = "relevant"
    /\ \E w \in 1..Len(short_term_memory), r \in 1..Len(Stored(memory_file)) :
          /\ short_term_memory[w] = Stored(memory_file)[r]
          /\ SharesTerm(last.current_message, short_term_memory[w])

\* the cost of the interactions of a context: tokens_used of each, which add_interaction
\* sets to the estimate of the two texts joined (line 37)
InteractionsCost(messages) ==
    LET s == IF messages # <<>> /\ messages[1].role = "system" THEN 1 ELSE 0
    IN  SumSeq([k \in 1..((Len(messages) - s) \div 2) |->
                   _estimate_tokens(messages[s + 2 * k - 1].content
                                        \o messages[s + 2 * k].content)])

\* C24: a context holds a summary message only when the budget left after the recent and
\* the relevant interactions it includes is greater than 100 token-units.
C24_SummaryNeedsRoom ==
    (/\ last.op = "get_intelligent_context"
     /\ SummaryUnits(last.sources) = 1)
        => last.max_tokens - InteractionsCost(last.messages) > 100

\* C25: the summary message of a context is made of the first two summaries of the cache,
\* in cache order, whose main_topics share a term with the message (of the only one when
\* one matches); no summary message is returned when none matches, and a context never
\* holds two summary messages.
C25_FirstTwoMatchingSummaries ==
    last.op = "get_intelligent_context" =>
        LET msg == last.messages
            cache == conversation_summaries
            terms == Range(_extract_terms(Lower(last.current_message)))
            matching == {i \in 1..Len(cache) : terms \cap Range(cache[i].main_topics) # {}}
            first_two == {i \in matching : Cardinality({j \in matching : j < i}) < 2}
            a == CHOOSE i \in first_two : \A j \in first_two : i <= j
            b == CHOOSE i \in first_two : \A j \in first_two : i >= j
            expected == IF a = b THEN cache[a].summary_text
                        ELSE cache[a].summary_text \o <<" ">> \o cache[b].summary_text
        IN  /\ Cardinality({i \in 1..Len(msg) : msg[i].role = "system"}) <= 1
            /\ \A i \in 1..Len(msg) :
                  msg[i].role = "system" =>
                      /\ matching # {}
                      /\ msg[i].content = ResumenText \o expected

\* a summary message returned from a cache where three summaries match the message and a
\* summary that does not match stands between the first two that do
C25_Witness ==
    /\ last.op = "get_intelligent_context"
    /\ SummaryUnits(last.sources) = 1
    /\ LET terms == Range(_extract_terms(Lower(last.current_message)))
           Matches(i) == terms \cap Range(conversation_summaries[i].main_topics) # {}
       IN  \E i, j, k, l \in 1..Len(conversation_summaries) :
              /\ i < j /\ j < k /\ k < l
              /\ Matches(i) /\ ~Matches(j) /\ Matches(k) /\ Matches(l)
              /\ \A h \in 1..(i - 1) : ~Matches(h)

\* the ISO calendar week of a timestamp: ISO year and ISO week number
IsoCalendarWeek(ts) == <<IsoYear(ts), IsoWeek(ts)>>

\* C26: in a summarization run two candidates are in the same week bucket exactly when
\* their timestamps are in the same ISO calendar week.
C26_BucketIsIsoWeek ==
    (/\ last.op = "add_interaction" /\ last.io = "ok"
     /\ memory_file.state = "ok"
     /\ Len(memory_file.data) >= LONG_TERM_SUMMARY_THRESHOLD)
        => LET candidates == Candidates(memory_file.data)
           IN  \A i, j \in 1..Len(candidates) :
                   (WeekKey(candidates[i].timestamp) = WeekKey(candidates[j].timestamp))
                       <=> (IsoCalendarWeek(candidates[i].timestamp)
                               = IsoCalendarWeek(candidates[j].timestamp))

\* the number of summaries of a period that the summary log holds
PeriodCount(file, period) ==
    Cardinality({k \in 1..Len(Stored(file)) : Stored(file)[k].period = period})

\* C27: the number of stored summaries of a period never decreases, and every
\* add_interaction that leaves LONG_TERM_SUMMARY_THRESHOLD or more records in the store
\* adds one summary for each week bucket of 5 or more candidates, whether or not the
\* log already holds a summary of that period.
C27_SummariesAtLeastOnce ==
    [][LET periods == {Stored(summary_file)[k].period : k \in 1..Len(Stored(summary_file))}
                      \cup {Stored(summary_file')[k].period :
                               k \in 1..Len(Stored(summary_file'))}
                      \cup {WeekKey(Stored(memory_file')[i].timestamp) :
                               i \in 1..(Len(Stored(memory_file')) - SHORT_TERM_MEMORY_LIMIT)}
       IN  \A period \in periods :
              /\ PeriodCount(summary_file', period) >= PeriodCount(summary_file, period)
              /\ (/\ last'.op = "add_interaction" /\ last'.io = "ok"
                  /\ memory_file'.state = "ok"
                  /\ Len(memory_file'.data) >= LONG_TERM_SUMMARY_THRESHOLD)
                    => PeriodCount(summary_file', period)
                          = PeriodCount(summary_file, period)
                              + (IF BucketSize(memory_file'.data, period) >= 5 THEN 1 ELSE 0)]_vars

\* C28: the score of a text for a list of query terms is 0 when the list or the text's
\* extracted terms are empty; otherwise it is the sum, over the query terms, of the
\* number of occurrences of the term among the text's terms divided by the number of
\* those terms.  It is never negative.
C28_ScoreIsTermFrequencySum ==
    last.op = "_calculate_relevance_score" =>
        LET query_terms == last.query_terms
            text_terms == _extract_terms(last.text)
            \* one pair for every occurrence in the text of every query term
            occurrences == {p \in (1..Len(query_terms)) \X (1..Len(text_terms)) :
                               query_terms[p[1]] = text_terms[p[2]]}
        IN  /\ last.score.num >= 0 /\ last.score.den > 0
            /\ (query_terms = <<>> \/ text_terms = <<>>) => last.score.num = 0
            /\ (query_terms # <<>> /\ text_terms # <<>>) =>
                  last.score.num * Len(text_terms) = Cardinality(occurrences) * last.score.den

\* a text where one query term occurs twice and another not at all, with a word that
\* the extractor drops
C28_Witness ==
    /\ last.op = "_calculate_relevance_score"
    /\ Len(last.query_terms) = 2
    /\ Len(_extract_terms(last.text)) = 2
    /\ Len(Split(last.text)) = 3
    /\ last.score = Score(2, 2)
    /\ \E i \in 1..2 : \A j \in 1..2 : last.query_terms[i] # _extract_terms(last.text)[j]

\* w is the tail of s: the same records in the same order
IsSuffix(w, s) ==
    /\ Len(w) <= Len(s)
    /\ \A i \in 1..Len(w) : w[i] = s[Len(s) - Len(w) + i]

\* C29: while storage I/O succeeds the short-term window is, before and after every
\* add_interaction, clear_short_term and load_from_long_term, a contiguous suffix of the
\* persistent store; load_from_long_term leaves exactly the last
\* min(SHORT_TERM_MEMORY_LIMIT, store size) records in it, and clear_short_term empties
\* it and changes neither the store nor the summary log.
C29_WindowIsStoreSuffix ==
    [][/\ IsSuffix(short_term_memory, Stored(memory_file))
       /\ IsSuffix(short_term_memory', Stored(memory_file'))
       /\ last'.op = "load_from_long_term" =>
             LET history == Stored(memory_file)
                 n == Min(SHORT_TERM_MEMORY_LIMIT, Len(history))
             IN  /\ Len(short_term_memory') = n
                 /\ \A i \in 1..n : short_term_memory'[i] = history[Len(history) - n + i]
                 /\ memory_file' = memory_file
       /\ last'.op = "clear_short_term" =>
             /\ short_term_memory' = <<>>
             /\ memory_file' = memory_file
             /\ summary_file' = summary_file]_vars

\* a reload of a store longer than the window whose last record was appended in this
\* session (the records of earlier sessions are stamped at midnight, us = 0)
C29_Witness ==
    /\ last.op = "load_from_long_term"
    /\ adds >= 1
    /\ Len(Stored(memory_file)) > SHORT_TERM_MEMORY_LIMIT
    /\ Len(short_term_memory) = SHORT_TERM_MEMORY_LIMIT
    /\ short_term_memory[SHORT_TERM_MEMORY_LIMIT].timestamp.us > 0

\* C30: a turn of the conversational loop whose model invocation ends in an error is not
\* recorded: it leaves the persistent store and the short-term window as they were.
C30_FailedTurnNotRecorded ==
    [][(last'.op = "run" /\ last'.outcome # "ok")
          => /\ memory_file' = memory_file
             /\ short_term_memory' = short_term_memory]_vars

====
